---------------------------- MODULE Spec2Model ----------------------------
(***************************************************************************)
(* The Pony-to-Affine partial lowering (LowerToAffineLoops.cpp) as a state *)
(* machine: an input function of Pony operations is legalized operation   *)
(* by operation by the conversion patterns, the rewrites are committed or  *)
(* discarded, and the lowered function is then executed on buffers.        *)
(***************************************************************************)
EXTENDS Integers, Sequences, FiniteSets, TLC

\* ------------------------------------------------------------------ bounds
\* Largest extent of one tensor dimension.
MaxDim == 2
\* Largest payload seed of a literal (see Payload).
MaxSeed == 1
\* Element values are 0..MaxVal (small integers, exact as f64).
MaxVal == 8
\* Largest number of declared parameters / results of the input function.
MaxArgs == 1
MaxResults == 1

\* The rank pony.gemm works on: getShape()[0], getShape()[1].
MatrixRank == 2

\* Marker of a buffer cell that was allocated and never stored to.
Undef == 0 - 1

\* ------------------------------------------------------- shapes, indices
RECURSIVE Prod(_)
Prod(shape) ==
    IF shape = <<>> THEN 1 ELSE Head(shape) * Prod(Tail(shape))

Reverse(s) == [k \in 1..Len(s) |-> s[Len(s) + 1 - k]]

MaxOf(S) == CHOOSE x \in S : \A y \in S : y <= x

Range(s) == {s[k] : k \in 1..Len(s)}

\* Every index tuple (0-based coordinates) of a buffer of the given shape.
Coords(shape) ==
    {c \in [1..Len(shape) -> 0..(MaxOf(Range(shape) \cup {1}) - 1)] :
        \A d \in 1..Len(shape) : c[d] < shape[d]}

\* Position (1-based) of a coordinate in row-major order, last dimension
\* fastest.
RECURSIVE RowMajor(_, _)
RowMajor(shape, c) ==
    IF shape = <<>> THEN 1
    ELSE (RowMajor(SubSeq(shape, 1, Len(shape) - 1),
                   SubSeq(c, 1, Len(c) - 1)) - 1) * shape[Len(shape)]
         + c[Len(c)] + 1

\* ------------------------------------------------------------ operations
\* One operation of a block.  id is also the SSA value the operation
\* defines; ty/shape its result type; loc the source location it carries.
Op(id, kind, operands, ty, shape, value, loc, body) ==
    [id |-> id, kind |-> kind, operands |-> operands, ty |-> ty,
     shape |-> shape, value |-> value, loc |-> loc, body |-> body]

\* One operation of an innermost loop body: a and b are positions of earlier
\* body operations, buf a buffer value, idx positions of induction variables.
BodyOp(kind, a, b, buf, idx) ==
    [kind |-> kind, a |-> a, b |-> b, buf |-> buf, idx |-> idx]

PonyKinds == {"pony.constant", "pony.add", "pony.mul", "pony.transpose",
              "pony.gemm", "pony.print", "pony.return", "pony.func"}

IndexOf(blk, id) == CHOOSE k \in 1..Len(blk) : blk[k].id = id

HasOp(blk, id) == \E k \in 1..Len(blk) : blk[k].id = id

OpOf(blk, id) == blk[IndexOf(blk, id)]


TypeOf(blk, v) == IF HasOp(blk, v) THEN OpOf(blk, v).ty ELSE "none"

ShapeOf(blk, v) == OpOf(blk, v).shape

\* ------------------------------------------------------- rewriter helpers
\* create<...>() at the insertion point, which the driver sets to the
\* operation being legalized: the new operation lands right before it.
InsertBefore(blk, target, op) ==
    LET k == IndexOf(blk, target)
    IN  SubSeq(blk, 1, k - 1) \o <<op>> \o SubSeq(blk, k, Len(blk))

\* Operation::moveBefore: unlink and relink before the target; moving an
\* operation before itself changes nothing.
MoveBefore(blk, id, target) ==
    IF id = target THEN blk
    ELSE InsertBefore(SelectSeq(blk, LAMBDA o : o.id # id), target,
                      OpOf(blk, id))

Front(blk) == blk[1].id

Back(blk) == blk[Len(blk)].id

\* The operands a conversion pattern is handed: each value replaced so far
\* is seen as its replacement.
Remap(map, v) == IF v \in DOMAIN map THEN map[v] ELSE v

RemapAll(map, vs) == [k \in 1..Len(vs) |-> Remap(map, vs[k])]

\* The result of one pattern application: status is "success", "failure"
\* (the pattern declined, nothing changed) or "crash" (a cast<MemRefType>
\* of a value that is no memref, or a tensor type without a rank: the run
\* aborts or leaves defined behaviour, and nothing is said of what follows).
Rewrite(status, blk, map, gone, next) ==
    [status |-> status, blk |-> blk, map |-> map, gone |-> gone,
     next |-> next]

\* ------------------------------------------------------------- patterns
\* The shape of a tensor type without a rank, tensor<*xf64>: no dimension
\* list, which no ranked shape equals.
Unranked == << 0 - 1 >>

hasRank(shape) == shape # Unranked

\* Only ranked tensor types are converted; the memref has the same shape.
\* For an unranked type the assertion fails, or, compiled out, the shape of
\* a type that has none is read: the patterns report "crash".
convertTensorToMemRef(shape) == shape

\* An allocation helper that leaves the deallocation where it was created.
insertAllocAndDeallocInPlace(blk, at, memRefType, loc, nid) ==
    LET alloc == Op(nid, "memref.alloc", <<>>, "memref", memRefType, <<>>,
                    loc, <<>>)
        b1 == InsertBefore(blk, at, alloc)
        b2 == MoveBefore(b1, nid, Front(b1))
        dealloc == Op(nid + 1, "memref.dealloc", <<nid>>, "none", <<>>,
                      <<>>, loc, <<>>)
    IN  InsertBefore(b2, at, dealloc)

\* alloc is created and moved to the front of the block, dealloc is created
\* and moved before the last operation of the block.
insertAllocAndDealloc(blk, at, memRefType, loc, nid) ==
    LET alloc == Op(nid, "memref.alloc", <<>>, "memref", memRefType, <<>>,
                    loc, <<>>)
        b1 == InsertBefore(blk, at, alloc)
        b2 == MoveBefore(b1, nid, Front(b1))
        dealloc == Op(nid + 1, "memref.dealloc", <<nid>>, "none", <<>>,
                      <<>>, loc, <<>>)
        b3 == InsertBefore(b2, at, dealloc)
    IN  MoveBefore(b3, nid + 1, Back(b3))

Ivs(rank) == [k \in 1..rank |-> k]

\* A binary lowering that loads the left operand twice.
BinaryIterationLhsTwice(lowered, memRefOperands, rank) ==
    << BodyOp("affine.load", 0, 0, memRefOperands[1], Ivs(rank)),
       BodyOp("affine.load", 0, 0, memRefOperands[1], Ivs(rank)),
       BodyOp(lowered, 1, 2, 0, <<>>) >>

\* The per-iteration callbacks: the loads and the scalar operation whose
\* value (the last one) lowerOpToLoops stores at the current index.
BinaryIteration(lowered, memRefOperands, rank) ==
    << BodyOp("affine.load", 0, 0, memRefOperands[1], Ivs(rank)),
       BodyOp("affine.load", 0, 0, memRefOperands[2], Ivs(rank)),
       BodyOp(lowered, 1, 2, 0, <<>>) >>

\* A transpose lowering that loads at the loop indices as they are.
TransposeIterationNoReverse(memRefOperands, rank) ==
    << BodyOp("affine.load", 0, 0, memRefOperands[1], Ivs(rank)) >>

TransposeIteration(memRefOperands, rank) ==
    << BodyOp("affine.load", 0, 0, memRefOperands[1], Reverse(Ivs(rank))) >>

lowerOpToLoops(blk, map, gone, op, operands, nid, processIteration) ==
    LET memRefType == convertTensorToMemRef(op.shape)
        b1 == insertAllocAndDealloc(blk, op.id, memRefType, op.loc, nid)
        rank == Len(op.shape)
        body == Append(processIteration,
                       BodyOp("affine.store", Len(processIteration), 0, nid,
                              Ivs(rank)))
        nest == Op(nid + 2, "affine.for", <<>>, "none", op.shape, <<>>,
                   op.loc, body)
    IN  IF \/ ~hasRank(op.shape)
           \/ \E k \in 1..Len(operands) : TypeOf(blk, operands[k]) # "memref"
        THEN Rewrite("crash", blk, map, gone, nid)
        ELSE Rewrite("success", InsertBefore(b1, op.id, nest),
                     (op.id :> nid) @@ map, gone \cup {op.id}, nid + 3)

BinaryOpLowering(blk, map, gone, op, nid, lowered) ==
    LET operands == RemapAll(map, op.operands)
    IN  lowerOpToLoops(blk, map, gone, op, operands, nid,
                       BinaryIteration(lowered, operands, Len(op.shape)))

TransposeOpLowering(blk, map, gone, op, nid) ==
    LET operands == RemapAll(map, op.operands)
    IN  lowerOpToLoops(blk, map, gone, op, operands, nid,
                       TransposeIteration(operands, Len(op.shape)))

\* A gemm body that reads the right operand as [K,N]: rhs[k, j].
GemmIterationRhsUntransposed(operands, alloc) ==
    << BodyOp("affine.load", 0, 0, operands[1], <<1, 3>>),
       BodyOp("affine.load", 0, 0, operands[2], <<3, 2>>),
       BodyOp("arith.mulf", 1, 2, 0, <<>>),
       BodyOp("affine.load", 0, 0, alloc, <<1, 2>>),
       BodyOp("arith.addf", 4, 3, 0, <<>>),
       BodyOp("affine.store", 5, 0, alloc, <<1, 2>>) >>

\* The body of the gemm nest at (i, j, k): lhs[i, k] * rhs[j, k] is added to
\* what alloc[i, j] holds and stored back.
GemmIteration(operands, alloc) ==
    << BodyOp("affine.load", 0, 0, operands[1], <<1, 3>>),
       BodyOp("affine.load", 0, 0, operands[2], <<2, 3>>),
       BodyOp("arith.mulf", 1, 2, 0, <<>>),
       BodyOp("affine.load", 0, 0, alloc, <<1, 2>>),
       BodyOp("arith.addf", 4, 3, 0, <<>>),
       BodyOp("affine.store", 5, 0, alloc, <<1, 2>>) >>

GemmOpLowering(blk, map, gone, op, nid) ==
    LET operands == RemapAll(map, op.operands)
        memRefType == convertTensorToMemRef(op.shape)
        b1 == insertAllocAndDealloc(blk, op.id, memRefType, op.loc, nid)
        M == op.shape[1]
        N == op.shape[2]
        K == ShapeOf(blk, operands[1])[2]
        nest == Op(nid + 2, "affine.for", <<>>, "none", <<M, N, K>>, <<>>,
                   op.loc, GemmIteration(operands, nid))
    IN  IF \/ ~hasRank(op.shape)
           \/ \E k \in 1..Len(operands) : TypeOf(blk, operands[k]) # "memref"
        THEN Rewrite("crash", blk, map, gone, nid)
        ELSE Rewrite("success", InsertBefore(b1, op.id, nest),
                     (op.id :> nid) @@ map, gone \cup {op.id}, nid + 3)

\* The index tuples in the order the recursive functor storeElements visits
\* them: dimension by dimension, the index of each pushed and popped.
RECURSIVE storeElements(_, _, _), storeElementsFrom(_, _, _, _)
storeElements(dimension, indices, valueShape) ==
    IF dimension = Len(valueShape) THEN <<indices>>
    ELSE storeElementsFrom(0, dimension, indices, valueShape)

storeElementsFrom(i, dimension, indices, valueShape) ==
    IF i = valueShape[dimension + 1] THEN <<>>
    ELSE storeElements(dimension + 1, Append(indices, i), valueShape)
         \o storeElementsFrom(i + 1, dimension, indices, valueShape)

\* Index constants for the first dimension only.
NumConstantIndicesFirstDim(valueShape) ==
    IF valueShape # <<>> THEN valueShape[1] ELSE 1

\* One index constant per value below the largest dimension (one, 0, for a
\* tensor of rank 0).
NumConstantIndices(valueShape) ==
    IF valueShape # <<>> THEN MaxOf(Range(valueShape)) ELSE 1

\* An iterator that is read and never advanced.
valueItStuck(value, k) == value[1]

\* *valueIt++ at the k-th visit: the k-th element of the flattened sequence.
valueIt(value, k) == value[k]

RECURSIVE InsertAllBefore(_, _, _)
InsertAllBefore(blk, target, ops) ==
    IF ops = <<>> THEN blk
    ELSE InsertAllBefore(InsertBefore(blk, target, Head(ops)), target,
                         Tail(ops))

ConstantOpLowering(blk, map, gone, op, nid) ==
    LET memRefType == convertTensorToMemRef(op.shape)
        b1 == insertAllocAndDealloc(blk, op.id, memRefType, op.loc, nid)
        valueShape == memRefType
        nidx == NumConstantIndices(valueShape)
        \* constantIndices[i] is the value nid + 2 + i
        constantIndices ==
            [k \in 1..nidx |->
                Op(nid + 1 + k, "arith.constant", <<>>, "index", <<>>,
                   <<k - 1>>, op.loc, <<>>)]
        coords == storeElements(0, <<>>, valueShape)
        first == nid + 2 + nidx
        \* the k-th visit materializes *valueIt++ and stores it
        stores ==
            [j \in 1..(2 * Len(coords)) |->
                LET k == (j + 1) \div 2
                IN  IF j % 2 = 1
                    THEN Op(first + j - 1, "arith.constant", <<>>, "f64",
                            <<>>, <<valueIt(op.value, k)>>, op.loc, <<>>)
                    ELSE Op(first + j - 1, "affine.store",
                            <<first + j - 2, nid>>
                              \o [d \in 1..Len(coords[k]) |->
                                     nid + 2 + coords[k][d]],
                            "none", <<>>, <<>>, op.loc, <<>>)]
    IN  Rewrite("success",
                InsertAllBefore(b1, op.id, constantIndices \o stores),
                (op.id :> nid) @@ map, gone \cup {op.id},
                first + 2 * Len(coords))

\* The designated entry point.
EntryName == "main"

\* A function lowering that checks the name and not the signature.
FuncOpLoweringNameOnly(fn) ==
    IF fn.name # EntryName THEN [status |-> "failure", fn |-> fn]
    ELSE [status |-> "success", fn |-> [fn EXCEPT !.kind = "func.func"]]

\* The function is rewritten only if it is main with no inputs and no
\* results; the new function takes over the region, the old one is erased.
FuncOpLowering(fn) ==
    IF fn.name # EntryName THEN [status |-> "failure", fn |-> fn]
    ELSE IF fn.nargs # 0 \/ fn.nres # 0
         THEN [status |-> "failure", fn |-> fn]
         ELSE [status |-> "success",
               fn |-> [fn EXCEPT !.kind = "func.func"]]

\* Whether pony.print is legal: none of its operand types is a tensor.
PrintLegal(blk, op) ==
    \A k \in 1..Len(op.operands) : TypeOf(blk, op.operands[k]) # "tensor"

\* A print lowering that also replaces the operation.
PrintOpLoweringErases(blk, map, gone, op, nid) ==
    LET k == IndexOf(blk, op.id)
        updated == [blk EXCEPT ![k].operands = RemapAll(map, op.operands)]
    IN  IF PrintLegal(updated, updated[k])
        THEN Rewrite("success", updated, map, gone \cup {op.id}, nid)
        ELSE Rewrite("failure", blk, map, gone, nid)

\* A print lowering that leaves the operands as they are and is accepted.
PrintOpLoweringKeepsOperands(blk, map, gone, op, nid) ==
    Rewrite("success", blk, map, gone, nid)

\* pony.print stays; its operands are set to the remapped ones in place.
\* The driver accepts the update only if the operation is then legal.
PrintOpLowering(blk, map, gone, op, nid) ==
    LET k == IndexOf(blk, op.id)
        updated == [blk EXCEPT ![k].operands = RemapAll(map, op.operands)]
    IN  IF PrintLegal(updated, updated[k])
        THEN Rewrite("success", updated, map, gone, nid)
        ELSE Rewrite("failure", blk, map, gone, nid)

\* A return lowering that replaces pony.return by another pony.return.
ReturnOpLoweringReemits(blk, map, gone, op, nid) ==
    IF Len(op.operands) > 0 THEN Rewrite("failure", blk, map, gone, nid)
    ELSE Rewrite("success",
                 InsertBefore(blk, op.id,
                              Op(nid, "pony.return", <<>>, "none", <<>>,
                                 <<>>, op.loc, <<>>)),
                 map, gone \cup {op.id}, nid + 1)

\* A return lowering that declines while another operation of the block is
\* still to be replaced.
ReturnOpLoweringOnlyLast(blk, map, gone, op, nid) ==
    IF \/ Len(op.operands) > 0
       \/ \E p \in 1..Len(blk) :
             /\ blk[p].id # op.id
             /\ blk[p].kind \in PonyKinds \ {"pony.print"}
             /\ blk[p].id \notin gone
    THEN Rewrite("failure", blk, map, gone, nid)
    ELSE Rewrite("success",
                 InsertBefore(blk, op.id,
                              Op(nid, "func.return", <<>>, "none", <<>>,
                                 <<>>, op.loc, <<>>)),
                 map, gone \cup {op.id}, nid + 1)

\* A return lowering that does not look at the operands.
ReturnOpLoweringAnyOperands(blk, map, gone, op, nid) ==
    Rewrite("success",
            InsertBefore(blk, op.id,
                         Op(nid, "func.return", <<>>, "none", <<>>, <<>>,
                            op.loc, <<>>)),
            map, gone \cup {op.id}, nid + 1)

\* A return lowering that creates func.return and leaves pony.return.
ReturnOpLoweringKeepsOp(blk, map, gone, op, nid) ==
    IF Len(op.operands) > 0 THEN Rewrite("failure", blk, map, gone, nid)
    ELSE Rewrite("success",
                 InsertBefore(blk, op.id,
                              Op(nid, "func.return", <<>>, "none", <<>>,
                                 <<>>, op.loc, <<>>)),
                 map, gone, nid + 1)

\* A return with an operand is declined; otherwise func.return is created
\* before it and replaces it.
ReturnOpLowering(blk, map, gone, op, nid) ==
    IF Len(op.operands) > 0 THEN Rewrite("failure", blk, map, gone, nid)
    ELSE Rewrite("success",
                 InsertBefore(blk, op.id,
                              Op(nid, "func.return", <<>>, "none", <<>>,
                                 <<>>, op.loc, <<>>)),
                 map, gone \cup {op.id}, nid + 1)

\* The one pattern registered for each operation name.
ApplyPattern(blk, map, gone, op, nid) ==
    CASE op.kind = "pony.add" ->
            BinaryOpLowering(blk, map, gone, op, nid, "arith.addf")
      [] op.kind = "pony.mul" ->
            BinaryOpLowering(blk, map, gone, op, nid, "arith.mulf")
      [] op.kind = "pony.gemm" -> GemmOpLowering(blk, map, gone, op, nid)
      [] op.kind = "pony.constant" ->
            ConstantOpLowering(blk, map, gone, op, nid)
      [] op.kind = "pony.print" -> PrintOpLowering(blk, map, gone, op, nid)
      [] op.kind = "pony.return" -> ReturnOpLowering(blk, map, gone, op, nid)
      [] op.kind = "pony.transpose" ->
            TransposeOpLowering(blk, map, gone, op, nid)
      [] OTHER -> Rewrite("failure", blk, map, gone, nid)

\* A target on which nothing is illegal.
IsLegalNothingIllegal(blk, op) == TRUE

\* The conversion target: the Affine, Builtin, Arithmetic, Func and MemRef
\* dialects are legal, the Pony dialect is illegal, pony.print is legal when
\* its operands are.
IsLegal(blk, op) ==
    IF op.kind = "pony.print" THEN PrintLegal(blk, op)
    ELSE op.kind \notin PonyKinds

\* ---------------------------------------------------------- input graphs
Dims == 1..MaxDim

\* Ranked shapes of rank 0, 1 and 2.
Matrices == {<<m, n>> : m \in Dims, n \in Dims}

Shapes == {<<>>} \cup {<<m>> : m \in Dims} \cup Matrices

\* The flattened, row-major element sequence of a literal of n elements:
\* seed 0 is 1, 2, 3, ..., seed 1 the next n values, and so on.
Payload(seed, n) == [p \in 1..n |-> (seed * n + p) % (MaxVal + 1)]

Literal(id, shape, seed) ==
    Op(id, "pony.constant", <<>>, "tensor", shape,
       Payload(seed, Prod(shape)), id, <<>>)

Tensor(id, kind, operands, shape) ==
    Op(id, kind, operands, "tensor", shape, <<>>, id, <<>>)

\* The operations computing the root value of the function body.
RootOps(root, shA, shB, sA, sB) ==
    CASE root = "pony.constant" -> << Literal(1, shA, sA) >>
      [] root = "pony.transpose" ->
            << Literal(1, shA, sA), Tensor(2, root, <<1>>, Reverse(shA)) >>
      [] root \in {"pony.add", "pony.mul"} ->
            << Literal(1, shA, sA), Literal(2, shA, sB),
               Tensor(3, root, <<1, 2>>, shA) >>
      [] root = "pony.gemm" ->
            << Literal(1, shA, sA), Literal(2, shB, sB),
               Tensor(3, root, <<1, 2>>, <<shA[1], shB[1]>>) >>

\* The body: the root computation, an optional print of the root, and the
\* return, with the root as its operand or with none.
InputBody(root, shA, shB, sA, sB, printed, retOps) ==
    LET ops == RootOps(root, shA, shB, sA, sB)
        r == Len(ops)
        pr == IF printed
              THEN << Op(r + 1, "pony.print", <<r>>, "none", <<>>, <<>>,
                         r + 1, <<>>) >>
              ELSE <<>>
        n == r + Len(pr) + 1
    IN  ops \o pr
        \o << Op(n, "pony.return", IF retOps = 1 THEN <<r>> ELSE <<>>,
                 "none", <<>>, <<>>, n, <<>>) >>

FuncNames == {"main", "Main", "multiply_transpose"}

Funcs == [kind : {"pony.func"}, name : FuncNames, nargs : 0..MaxArgs,
          nres : 0..MaxResults]

Seeds == 0..MaxSeed

\* The bodies over a set of shapes (gemm: over the matrices among them).
BodiesOver(shapes) ==
    {InputBody(root, sh, sh, sA, 0, pr, ro) :
        root \in {"pony.constant", "pony.transpose"}, sh \in shapes,
        sA \in Seeds, pr \in BOOLEAN, ro \in 0..1}
    \cup
    {InputBody(root, sh, sh, sA, sB, pr, ro) :
        root \in {"pony.add", "pony.mul"}, sh \in shapes,
        sA \in Seeds, sB \in Seeds, pr \in BOOLEAN, ro \in 0..1}
    \cup
    UNION {{InputBody("pony.gemm", shA, shB, sA, sB, pr, ro) :
                shB \in {x \in shapes \cap Matrices : x[2] = shA[2]},
                sA \in Seeds, sB \in Seeds, pr \in BOOLEAN, ro \in 0..1} :
           shA \in shapes \cap Matrices}

\* A literal whose value attribute holds one element more than its result
\* type has: the pass takes the shape from the result type and the elements
\* from the attribute, and nothing in it compares the two.
LongLiteral(id, shape, seed) ==
    Op(id, "pony.constant", <<>>, "tensor", shape,
       Payload(seed, Prod(shape) + 1), id, <<>>)

\* The bodies that hold such a literal, printed or not.
LongLiteralBodies ==
    {<< LongLiteral(1, sh, sA) >> \o Tail(InputBody("pony.constant", sh, sh,
                                                    sA, 0, pr, 0)) :
        sh \in Shapes, sA \in Seeds, pr \in BOOLEAN}

\* The bodies that transpose a literal into a tensor whose type has no
\* rank: the pass itself does not look at the types before it rewrites.
UnrankedBodies ==
    {[InputBody("pony.transpose", sh, sh, sA, 0, pr, 0) EXCEPT
         ![2].shape = Unranked] :
        sh \in Shapes, sA \in Seeds, pr \in BOOLEAN}

\* The modules handed to the pass: main() over every shape, and every other
\* function signature over the scalar and the 1x1 shape.
Inputs ==
    [fn : {[kind |-> "pony.func", name |-> "main", nargs |-> 0, nres |-> 0]},
     body : BodiesOver(Shapes) \cup LongLiteralBodies \cup UnrankedBodies]
    \cup [fn : Funcs, body : BodiesOver({<<>>, <<1, 1>>})]

\* ------------------------------------------------------------------ state
\* No operation: what the driver has legalized before its first step.
NoOp == 0 - 1

\* The outputs ponyc can be asked for, in the order of its enumeration.
None == 0
DumpToken == 1
DumpAST == 2
DumpMLIR == 3
DumpMLIRAffine == 4
DumpMLIRLLVM == 5
DumpLLVMIR == 6
RunJIT == 7

VARIABLES
    input,      \* the module handed to the pass: [fn, body]
    func,       \* the function operation
    block,      \* the operations of the function's block, in order
    mapping,    \* replaced value -> replacement, recorded by replaceOp
    gone,       \* operations replaced or erased, unlinked at the commit
    done,       \* operations of toConvert already legalized
    outcome,    \* "converting", "success", "failure" or "crash"
    nextId,     \* next fresh operation id
    steps,      \* steps the driver (of the conversion, of the token dump)
                \* has taken
    current,    \* the operation the driver legalized last, NoOp at first
    mem,        \* live buffer -> index tuple -> value
    freed,      \* buffers deallocated
    pc,         \* position of the next operation to execute, 0 before a run
    ivs,        \* induction variables of the running loop nest
    out,        \* what pony.print printed
    garbage,    \* buffer -> the value found in its cells never stored to
    fault,      \* an access outside a live buffer happened
    pm,         \* the pass manager of ponyc: what it was asked, its passes,
                \* the passes it has run and how the run stands
    buffer,     \* the bytes of the file handed to dumpToken
    lexer,      \* the Lexer object of dumpToken
    tokenDump   \* where dumpToken stands: "idle" (not called), "prime",
                \* "loop", "returned" or "aborted"

vars == <<input, func, block, mapping, gone, done, outcome, nextId, steps,
          current, mem, freed, pc, ivs, out, garbage, fault, pm, buffer,
          lexer, tokenDump>>

\* The state of the tool around the pass.
lexVars == <<buffer, lexer, tokenDump>>

toolVars == <<pm, lexVars>>

compileVars ==
    <<input, func, block, mapping, gone, done, outcome, nextId, steps,
      current, toolVars>>

execVars == <<mem, freed, pc, ivs, out, garbage, fault>>

\* The pass manager when the pass is run by itself: one pass, running.
LoweringOnly ==
    [emitAction |-> DumpMLIRAffine, enableOpt |-> FALSE, passes |-> <<"lower-to-affine">>,
     ran |-> <<"lower-to-affine">>, status |-> "running"]

\* The state in which the pass is entered on module in.
InitOn(in) ==
    /\ input = in
    /\ func = input.fn
    /\ block = input.body
    /\ mapping = <<>>
    /\ steps = 0
    /\ current = NoOp
    /\ gone = {}
    /\ done = {}
    /\ outcome = "converting"
    /\ nextId = Len(input.body) + 1
    /\ mem = <<>>
    /\ freed = {}
    /\ pc = 0
    /\ ivs = <<>>
    /\ out = <<>>
    /\ garbage = <<>>
    /\ fault = FALSE

InitPass == \E in \in Inputs : InitOn(in)

\* dumpToken is not called: no file is read and no Lexer is made.
NoTokenDump ==
    /\ buffer = <<>>
    /\ lexer = <<>>
    /\ tokenDump = "idle"

Init == InitPass /\ pm = LoweringOnly /\ NoTokenDump

\* ----------------------------------------------------- conversion driver
\* The id under which the function operation itself is legalized.
FuncId == 0

\* The operations to convert, collected by a pre-order walk before any
\* rewrite: the function, then the operations of its block in order.
toConvert == <<FuncId>> \o [k \in 1..Len(input.body) |-> input.body[k].id]

\* The operations of toConvert not legalized yet.
Pending == {id \in Range(toConvert) : id \notin done}

PositionOf(id) == CHOOSE k \in 1..Len(toConvert) : toConvert[k] = id

\* The first of them, which the driver legalizes next (none at the end).
InOrder ==
    {id \in Pending : \A other \in Pending : PositionOf(id) <= PositionOf(other)}

\* A pass that takes the conversion to have succeeded whatever it returned.
runOnOperationUnchecked(converted) == "success"

\* The outcome of the pass: it signals failure if the conversion failed.
runOnOperation(converted) == IF converted THEN "success" ELSE "failure"

\* A legalization failed: the rewrites are discarded, the module is as it
\* was handed in, and the pass signals failure.
discardRewrites ==
    /\ outcome' = runOnOperation(FALSE)
    /\ func' = input.fn
    /\ block' = input.body
    /\ mapping' = <<>>
    /\ gone' = {}
    /\ UNCHANGED <<input, done, nextId>>

LegalizeFunc ==
    IF IsLegal(block, func)
    THEN /\ done' = done \cup {FuncId}
         /\ UNCHANGED <<input, func, block, mapping, gone, outcome, nextId>>
    ELSE LET r == FuncOpLowering(func)
         IN  IF r.status = "success"
             THEN /\ func' = r.fn
                  /\ done' = done \cup {FuncId}
                  /\ UNCHANGED <<input, block, mapping, gone, outcome,
                                 nextId>>
             ELSE discardRewrites

LegalizeOp(id) ==
    LET op == OpOf(block, id)
    IN  IF IsLegal(block, op)
        THEN /\ done' = done \cup {id}
             /\ UNCHANGED <<input, func, block, mapping, gone, outcome,
                            nextId>>
        ELSE LET r == ApplyPattern(block, mapping, gone, op, nextId)
             IN  CASE r.status = "success" ->
                        /\ block' = r.blk
                        /\ mapping' = r.map
                        /\ gone' = r.gone
                        /\ nextId' = r.next
                        /\ done' = done \cup {id}
                        /\ UNCHANGED <<input, func, outcome>>
                   [] r.status = "failure" -> discardRewrites
                   [] r.status = "crash" ->
                        /\ outcome' = "crash"
                        /\ UNCHANGED <<input, func, block, mapping, gone,
                                       done, nextId>>

\* One step of applyPartialConversion: legalize one operation of toConvert.
Legalize(id) ==
    /\ outcome = "converting"
    /\ id \notin done
    /\ IF id = FuncId THEN LegalizeFunc ELSE LegalizeOp(id)
    /\ steps' = steps + 1
    /\ current' = id
    /\ UNCHANGED execVars
    /\ UNCHANGED toolVars

\* Replacing every use of a replaced value in one operation.
RemapBody(map, body) ==
    [k \in 1..Len(body) |-> [body[k] EXCEPT !.buf = Remap(map, @)]]

RemapOp(map, op) ==
    [op EXCEPT !.operands = RemapAll(map, @), !.body = RemapBody(map, @)]

\* applyRewrites: every use of a replaced value becomes the replacement and
\* the replaced operations are unlinked.
applyRewrites(blk, map, erased) ==
    LET kept == SelectSeq(blk, LAMBDA o : o.id \notin erased)
    IN  [k \in 1..Len(kept) |-> RemapOp(map, kept[k])]

\* Scalar constants have no effect of their own: execution steps from one
\* effectful operation to the next.
RECURSIVE SkipPure(_, _)
SkipPure(blk, p) ==
    IF p <= Len(blk) /\ blk[p].kind = "arith.constant"
    THEN SkipPure(blk, p + 1)
    ELSE p

\* Every operation was legalized: the rewrites are committed and the
\* conversion succeeds.
Commit ==
    /\ outcome = "converting"
    /\ \A k \in 1..Len(toConvert) : toConvert[k] \in done
    /\ block' = applyRewrites(block, mapping, gone)
    /\ gone' = {}
    /\ outcome' = runOnOperation(TRUE)
    /\ UNCHANGED <<input, func, mapping, done, nextId, current>>
    /\ steps' = steps + 1
    /\ UNCHANGED execVars
    /\ UNCHANGED toolVars

\* ------------------------------------------------------------- execution
\* The value read from an access outside every live buffer.
Poison == 0 - 2

\* What the cells of a buffer that were never stored to may hold: 0 or
\* anything else up to MaxGarbage.
MaxGarbage == 1

GarbageValues == 0..MaxGarbage

InBounds(m, buf, c) == buf \in DOMAIN m /\ c \in DOMAIN m[buf]

LoadCell(m, buf, c) == IF InBounds(m, buf, c) THEN m[buf][c] ELSE Poison

StoreCell(m, buf, c, v) ==
    IF InBounds(m, buf, c) THEN [m EXCEPT ![buf][c] = v] ELSE m

ConstValue(blk, v) == OpOf(blk, v).value[1]

\* The state of one loop iteration: the values computed so far, the memory,
\* the uninitialized reads and the faults.
Iter(vals, m, reads, bad) ==
    [vals |-> vals, m |-> m, reads |-> reads, bad |-> bad]

At(iv, idx) == [d \in 1..Len(idx) |-> iv[idx[d]]]

\* One body operation at induction values iv; u is what a cell never stored
\* to is found to hold, the same for every such cell of one buffer.
BodyStep(o, iv, st, u) ==
    CASE o.kind = "affine.load" ->
            LET c == At(iv, o.idx)
                v == LoadCell(st.m, o.buf, c)
                g == IF o.buf \in DOMAIN st.reads THEN st.reads[o.buf]
                                                  ELSE u
            IN  Iter(Append(st.vals, IF v = Undef THEN g ELSE v), st.m,
                     IF v = Undef THEN (o.buf :> g) @@ st.reads
                                  ELSE st.reads,
                     st.bad \/ ~InBounds(st.m, o.buf, c))
      [] o.kind = "arith.addf" ->
            Iter(Append(st.vals, st.vals[o.a] + st.vals[o.b]), st.m,
                 st.reads, st.bad)
      [] o.kind = "arith.mulf" ->
            Iter(Append(st.vals, st.vals[o.a] * st.vals[o.b]), st.m,
                 st.reads, st.bad)
      [] o.kind = "affine.store" ->
            LET c == At(iv, o.idx)
            IN  Iter(Append(st.vals, 0),
                     StoreCell(st.m, o.buf, c, st.vals[o.a]), st.reads,
                     st.bad \/ ~InBounds(st.m, o.buf, c))

RECURSIVE RunBody(_, _, _, _, _)
RunBody(body, k, iv, st, u) ==
    IF k > Len(body) THEN st
    ELSE RunBody(body, k + 1, iv, BodyStep(body[k], iv, st, u), u)

Zeros(rank) == [d \in 1..rank |-> 0]

\* The induction values after iv, innermost loop fastest, or <<>> after the
\* last iteration.
RECURSIVE NextIvs(_, _, _)
NextIvs(iv, ubs, d) ==
    IF d = 0 THEN <<>>
    ELSE IF iv[d] + 1 < ubs[d] THEN [iv EXCEPT ![d] = iv[d] + 1]
         ELSE NextIvs([iv EXCEPT ![d] = 0], ubs, d - 1)

Running == outcome = "success" /\ pc >= 1 /\ pc <= Len(block)

\* main is invoked on the lowered module.
Invoke ==
    /\ outcome = "success"
    /\ pc = 0
    /\ pc' = SkipPure(block, 1)
    /\ UNCHANGED <<mem, freed, ivs, out, garbage, fault>>
    /\ UNCHANGED compileVars

ExecAlloc ==
    /\ Running
    /\ block[pc].kind = "memref.alloc"
    /\ mem' = (block[pc].id :> [c \in Coords(block[pc].shape) |-> Undef])
              @@ mem
    /\ pc' = SkipPure(block, pc + 1)
    /\ UNCHANGED <<freed, ivs, out, garbage, fault>>
    /\ UNCHANGED compileVars

ExecDealloc ==
    /\ Running
    /\ block[pc].kind = "memref.dealloc"
    /\ LET buf == block[pc].operands[1]
       IN  /\ mem' = [b \in DOMAIN mem \ {buf} |-> mem[b]]
           /\ freed' = freed \cup {buf}
           /\ fault' = (fault \/ buf \notin DOMAIN mem)
    /\ pc' = SkipPure(block, pc + 1)
    /\ UNCHANGED <<ivs, out, garbage>>
    /\ UNCHANGED compileVars

\* A store outside a loop: the value and the indices are constants.
ExecStore ==
    /\ Running
    /\ block[pc].kind = "affine.store"
    /\ LET o == block[pc]
           buf == o.operands[2]
           c == [d \in 1..(Len(o.operands) - 2) |->
                    ConstValue(block, o.operands[d + 2])]
       IN  /\ mem' = StoreCell(mem, buf, c, ConstValue(block, o.operands[1]))
           /\ fault' = (fault \/ ~InBounds(mem, buf, c))
    /\ pc' = SkipPure(block, pc + 1)
    /\ UNCHANGED <<freed, ivs, out, garbage>>
    /\ UNCHANGED compileVars

\* One iteration of a loop nest, then on to the next induction values.
ExecIteration ==
    /\ Running
    /\ block[pc].kind = "affine.for"
    /\ \E u \in GarbageValues :
        LET o == block[pc]
            iv == IF ivs = <<>> THEN Zeros(Len(o.shape)) ELSE ivs
            st == RunBody(o.body, 1, iv, Iter(<<>>, mem, garbage, FALSE), u)
            nxt == NextIvs(iv, o.shape, Len(o.shape))
        IN  /\ mem' = st.m
            /\ garbage' = st.reads
            /\ fault' = (fault \/ st.bad)
            /\ ivs' = nxt
            /\ pc' = IF nxt = <<>> THEN SkipPure(block, pc + 1) ELSE pc
    /\ UNCHANGED <<freed, out>>
    /\ UNCHANGED compileVars

\* The buffer in row-major order.
Flatten(m, buf, shape) ==
    [p \in 1..Prod(shape) |->
        LET c == CHOOSE x \in Coords(shape) : RowMajor(shape, x) = p
        IN  LoadCell(m, buf, c)]

ExecPrint ==
    /\ Running
    /\ block[pc].kind = "pony.print"
    /\ LET buf == block[pc].operands[1]
       IN  /\ out' = Append(out, IF buf \in DOMAIN mem
                                 THEN Flatten(mem, buf, ShapeOf(block, buf))
                                 ELSE <<Poison>>)
           /\ fault' = (fault \/ buf \notin DOMAIN mem)
    /\ pc' = SkipPure(block, pc + 1)
    /\ UNCHANGED <<mem, freed, ivs, garbage>>
    /\ UNCHANGED compileVars

\* func.return leaves the function: nothing after it runs.
ExecReturn ==
    /\ Running
    /\ block[pc].kind = "func.return"
    /\ pc' = Len(block) + 1
    /\ UNCHANGED <<mem, freed, ivs, out, garbage, fault>>
    /\ UNCHANGED compileVars

Exec ==
    \/ Invoke
    \/ ExecAlloc
    \/ ExecStore
    \/ ExecIteration
    \/ ExecPrint
    \/ ExecDealloc
    \/ ExecReturn

\* The driver legalizes the operations in the order of toConvert.
Next ==
    \/ \E id \in InOrder : Legalize(id)
    \/ Commit
    \/ Exec

Spec == Init /\ [][Next]_vars

\* The driver takes its next step: it is a sequential loop, which goes on
\* for as long as the conversion is not over.
DriverStep == outcome = "converting" /\ steps' = steps + 1

FairSpec == Spec /\ WF_steps(DriverStep)

\* The conversion alone, its rules applied to the operations of toConvert
\* in any order.
NextAnyOrder ==
    \/ \E id \in Pending : Legalize(id)
    \/ Commit

SpecAnyOrder == Init /\ [][NextAnyOrder]_vars

\* ---------------------------------------------------------------- claims
\* The input operations of a kind.
InputOps(kinds) ==
    {input.body[k] : k \in {j \in 1..Len(input.body) :
                              input.body[j].kind \in kinds}}

\* The buffer that replaced the result of input operation n.
BufferOf(n) == mapping[n.id]

Live(buf) == buf \in DOMAIN mem

\* The loop nest emitted for input operation n has run to its end.
NestRan(n) ==
    /\ outcome = "success"
    /\ \E p \in 1..Len(block) :
          /\ block[p].kind = "affine.for"
          /\ block[p].loc = n.id
          /\ pc > p

\* The operand buffers of n and its result buffer are all live.
AllLive(n) ==
    /\ Live(BufferOf(n))
    /\ \A k \in 1..Len(n.operands) : Live(mapping[n.operands[k]])

Scalar(kind, x, y) == IF kind = "pony.add" THEN x + y ELSE x * y

\* C1: once the loop nest lowered from an elementwise add or mul of two
\* operands of one shape has run, every coordinate of the result buffer was
\* written and holds lhs OP rhs of the same coordinate of the operand
\* buffers.
C1_ElementwiseResult ==
    \A n \in InputOps({"pony.add", "pony.mul"}) :
        (NestRan(n) /\ AllLive(n)) =>
            LET res == mem[BufferOf(n)]
                lhs == mem[mapping[n.operands[1]]]
                rhs == mem[mapping[n.operands[2]]]
            IN  /\ DOMAIN res = Coords(n.shape)
                /\ \A c \in Coords(n.shape) :
                      /\ res[c] # Undef
                      /\ res[c] = Scalar(n.kind, lhs[c], rhs[c])

\* The add of [[1,2],[3,4]] and [[5,6],[7,8]] has run and its buffer holds
\* [[6,8],[10,12]].
C1_Witness ==
    \E n \in InputOps({"pony.add"}) :
        /\ NestRan(n) /\ AllLive(n)
        /\ n.shape = <<2, 2>>
        /\ Flatten(mem, mapping[n.operands[1]], n.shape) = <<1, 2, 3, 4>>
        /\ Flatten(mem, mapping[n.operands[2]], n.shape) = <<5, 6, 7, 8>>
        /\ Flatten(mem, BufferOf(n), n.shape) = <<6, 8, 10, 12>>

\* C2: once the loop nest lowered from a transpose has run, the result
\* buffer, of the reversed shape, holds at every coordinate the input at
\* the coordinate with its indices in reverse order.
C2_TransposeResult ==
    \A n \in InputOps({"pony.transpose"}) :
        (NestRan(n) /\ AllLive(n)) =>
            LET res == mem[BufferOf(n)]
                inp == mem[mapping[n.operands[1]]]
            IN  /\ DOMAIN res = Coords(n.shape)
                /\ DOMAIN inp = Coords(Reverse(n.shape))
                /\ \A c \in Coords(n.shape) :
                      /\ res[c] # Undef
                      /\ res[c] = inp[Reverse(c)]

\* The transpose of [[1,2],[3,4]] has run and its buffer holds
\* [[1,3],[2,4]].
C2_Witness ==
    \E n \in InputOps({"pony.transpose"}) :
        /\ NestRan(n) /\ AllLive(n)
        /\ n.shape = <<2, 2>>
        /\ Flatten(mem, mapping[n.operands[1]], <<2, 2>>) = <<1, 2, 3, 4>>
        /\ Flatten(mem, BufferOf(n), <<2, 2>>) = <<1, 3, 2, 4>>

RECURSIVE SumTo(_, _)
SumTo(f, K) == IF K = 0 THEN 0 ELSE SumTo(f, K - 1) + f[K - 1]

\* The accumulator buffer was found zero in the cells never stored to.
ZeroInitialized(buf) == buf \in DOMAIN garbage /\ garbage[buf] = 0

StoresOf(n) ==
    SelectSeq(block, LAMBDA o : o.kind = "affine.store" /\ o.loc = n.id)

\* The index tuple of a store outside a loop.
StoreCoord(o) ==
    [d \in 1..(Len(o.operands) - 2) |-> ConstValue(block, o.operands[d + 2])]

\* Every store emitted for n has been executed.
StoresRan(n) ==
    /\ outcome = "success"
    /\ pc >= 1
    /\ \A p \in 1..Len(block) :
          (block[p].kind = "affine.store" /\ block[p].loc = n.id) => pc > p

\* C4: a literal whose element sequence is as long as the product of its
\* dimensions is lowered to exactly one store per coordinate of its shape,
\* the k-th store storing the k-th element, and once they have run the
\* buffer read in row-major order is the literal's sequence.
C4_LiteralRowMajor ==
    \A n \in InputOps({"pony.constant"}) :
        (outcome = "success" /\ Len(n.value) = Prod(n.shape)) =>
            LET stores == StoresOf(n)
            IN  /\ Len(stores) = Prod(n.shape)
                /\ \A c \in Coords(n.shape) :
                      Cardinality({k \in 1..Len(stores) :
                                     StoreCoord(stores[k]) = c}) = 1
                /\ \A k \in 1..Len(stores) :
                      /\ stores[k].operands[2] = BufferOf(n)
                      /\ ConstValue(block, stores[k].operands[1]) = n.value[k]
                /\ (StoresRan(n) /\ Live(BufferOf(n))) =>
                      Flatten(mem, BufferOf(n), n.shape) = n.value

\* The stores of the 2x2 literal 5, 6, 7, 8 have run and the buffer reads
\* 5, 6, 7, 8 in row-major order, [1][0] holding 7.
C4_Witness ==
    \E n \in InputOps({"pony.constant"}) :
        /\ n.shape = <<2, 2>>
        /\ n.value = <<5, 6, 7, 8>>
        /\ StoresRan(n) /\ Live(BufferOf(n))
        /\ mem[BufferOf(n)][<<1, 0>>] = 7
        /\ Flatten(mem, BufferOf(n), n.shape) = n.value


\* The type of a value: of the operation defining it in the block, or of the
\* input operation that defined it if that is no longer there.
ValueType(v) ==
    IF HasOp(block, v) THEN OpOf(block, v).ty
    ELSE IF HasOp(input.body, v) THEN OpOf(input.body, v).ty
         ELSE "none"

\* The values an operation uses: its operands and the buffers its loop body
\* loads from and stores to.
Uses(o) ==
    Range(o.operands)
    \cup {o.body[k].buf : k \in {j \in 1..Len(o.body) :
                                  o.body[j].kind \in {"affine.load",
                                                      "affine.store"}}}

\* C6: when the conversion reports success, no operation of the function
\* has a tensor-typed result and none uses a tensor-typed value, the
\* operands of pony.print included (its exception is never needed).
C6_NoTensorOnSuccess ==
    outcome = "success" =>
        \A p \in 1..Len(block) :
            /\ block[p].ty # "tensor"
            /\ \A v \in Uses(block[p]) : ValueType(v) = "memref"
                                         \/ ValueType(v) \in {"index", "f64"}

\* A successful conversion of a function that printed a tensor: pony.print
\* is still there and its operand is a buffer.
C6_Witness ==
    /\ outcome = "success"
    /\ \E p \in 1..Len(block) :
          /\ block[p].kind = "pony.print"
          /\ ValueType(block[p].operands[1]) = "memref"
          /\ OpOf(input.body, block[p].id).operands # block[p].operands
          /\ ValueType(OpOf(input.body, block[p].id).operands[1]) = "tensor"

\* The kinds of the operations of the function, those of loop bodies
\* included, and of the function itself.
KindsOf(fn, blk) ==
    {fn.kind} \cup {blk[p].kind : p \in 1..Len(blk)}
    \cup UNION {{blk[p].body[k].kind : k \in 1..Len(blk[p].body)} :
                  p \in 1..Len(blk)}

\* Allocate, Deallocate, Load, Store, scalar arithmetic, scalar constant,
\* loop nest, plain return, plain entry point.
OutputKinds == {"memref.alloc", "memref.dealloc", "affine.load",
                "affine.store", "arith.addf", "arith.mulf",
                "arith.constant", "affine.for", "func.return", "func.func"}

\* C7 as stated: on success every operation is of an output kind.
C7_OnlyOutputKinds ==
    outcome = "success" => KindsOf(func, block) \subseteq OutputKinds

\* C7, amended: on success every operation is of an output kind or is a
\* pony.print none of whose operands is tensor-typed.
C7_OutputKindsOrPrint ==
    outcome = "success" =>
        /\ KindsOf(func, block) \subseteq OutputKinds \cup {"pony.print"}
        /\ \A p \in 1..Len(block) :
              block[p].kind = "pony.print" =>
                  \A k \in 1..Len(block[p].operands) :
                      ValueType(block[p].operands[k]) # "tensor"

\* A successful conversion whose result still holds pony.print, next to
\* the loop nest of the value it prints.
C7_Witness ==
    /\ outcome = "success"
    /\ "pony.print" \in KindsOf(func, block)
    /\ "affine.for" \in KindsOf(func, block)
    /\ "func.return" \in KindsOf(func, block)

\* An operation of the function, or the function, is illegal on the target.
IllegalRemains ==
    \/ ~IsLegal(block, func)
    \/ \E p \in 1..Len(block) : ~IsLegal(block, block[p])

\* The function holds operations of the output vocabulary next to
\* operations that are still illegal.
Mixed ==
    /\ IllegalRemains
    /\ KindsOf(func, block) \cap OutputKinds # {}

\* C8: a conversion that ends with an illegal operation left ends in
\* failure, and the function a finished conversion leaves is never mixed:
\* after a failure it is the function that was handed in.
C8_FailureNeverMixed ==
    outcome \in {"success", "failure"} =>
        /\ IllegalRemains => outcome = "failure"
        /\ ~Mixed
        /\ outcome = "failure" => block = input.body /\ func = input.fn

\* A conversion that failed after rules had already created operations of
\* the output vocabulary.
C8_Witness ==
    /\ outcome = "failure"
    /\ nextId > Len(input.body) + 1
    /\ IllegalRemains
    /\ ~Mixed

\* The pony.return of the input.
InputReturn == input.body[Len(input.body)]

\* C9: if the pony.return of the input has an operand, the return rule
\* declines it wherever it is applied, the conversion never succeeds, and
\* once it has ended no memref.alloc is in the function, however many
\* operations had been rewritten before.
C9_ReturnWithOperandFails ==
    Len(InputReturn.operands) > 0 =>
        /\ outcome # "success"
        /\ outcome = "failure" => "memref.alloc" \notin KindsOf(func, block)
        /\ (outcome = "converting" /\ HasOp(block, InputReturn.id)) =>
              ReturnOpLowering(block, mapping, gone,
                               RemapOp(mapping, OpOf(block, InputReturn.id)),
                               nextId).status = "failure"

\* The function is main without inputs and results, its return has an
\* operand, buffers had been allocated before the return was visited, and
\* the conversion failed.
C9_Witness ==
    /\ Len(InputReturn.operands) > 0
    /\ input.fn.name = EntryName /\ input.fn.nargs = 0 /\ input.fn.nres = 0
    /\ outcome = "failure"
    /\ nextId > Len(input.body) + 2
    /\ "memref.alloc" \notin KindsOf(func, block)

\* The function of the input is the entry point without inputs and results.
PlainEntry ==
    /\ input.fn.name = EntryName
    /\ input.fn.nargs = 0
    /\ input.fn.nres = 0

\* C10: the function is rewritten exactly when it is named main and has
\* no inputs and no results, and then into func.func of the same name over
\* the same body; otherwise it stays pony.func and the pass ends in failure.
C10_EntryPointOnly ==
    /\ FuncId \in done => PlainEntry
    /\ (PlainEntry /\ (done # {} \/ outcome = "success")) =>
          /\ FuncId \in done
          /\ outcome # "failure" =>
                func = [input.fn EXCEPT !.kind = "func.func"]
          /\ done = {FuncId} => block = input.body
    /\ ~PlainEntry =>
          /\ func = input.fn
          /\ ~IsLegal(block, func)
          /\ outcome \in {"converting", "failure"}
          /\ outcome = "converting" => done = {}

\* A function named main with an input was declined and the pass failed.
C10_Witness ==
    /\ input.fn.name = EntryName
    /\ input.fn.nargs > 0
    /\ outcome = "failure"
    /\ func.kind = "pony.func"

\* The block as the rewrites made so far leave it: replaced operations
\* unlinked, every use of a replaced value a use of its replacement.
View == applyRewrites(block, mapping, gone)

\* The buffers of block v: the results of its memref.alloc operations.
Buffers(v) ==
    {v[p].id : p \in {q \in 1..Len(v) : v[q].kind = "memref.alloc"}}

AllocsOf(v, b) == {p \in 1..Len(v) : v[p].id = b}

DeallocsOf(v, b) ==
    {p \in 1..Len(v) : v[p].kind = "memref.dealloc"
                       /\ b \in Range(v[p].operands)}

\* The loads, stores and prints of a buffer, and the operations not
\* lowered yet that will load from it; a pony.return that names it, which
\* no rule lowers, is not among them.
UsesOf(v, b) ==
    {p \in 1..Len(v) : v[p].kind \notin {"memref.dealloc", "pony.return"}
                       /\ b \in Uses(v[p])}

\* Exactly one allocation and one deallocation, every use between them.
Bracketed(v, b) ==
    /\ Cardinality(AllocsOf(v, b)) = 1
    /\ Cardinality(DeallocsOf(v, b)) = 1
    /\ \A a \in AllocsOf(v, b), d \in DeallocsOf(v, b), u \in UsesOf(v, b) :
          a < u /\ u < d

\* The return of the block: pony.return, or func.return once rewritten.
Terminators(v) ==
    {p \in 1..Len(v) : v[p].kind \in {"pony.return", "func.return"}}

\* The block has one return and the deallocation of b is before it.
BeforeTerminator(v, b) ==
    /\ Cardinality(Terminators(v)) = 1
    /\ \A d \in DeallocsOf(v, b), t \in Terminators(v) : d < t

\* The return of the block was rewritten before buffer b was created:
\* operations are numbered in the order of their creation.
ReturnRewrittenBefore(v, b) ==
    \E p \in 1..Len(v) : v[p].kind = "func.return" /\ v[p].id < b

\* C5 as stated: whatever the order in which the rules were applied, every
\* buffer has one allocation and one deallocation around all its uses, and
\* the deallocation is before the terminator of the block.
C5_BufferLifetimeAnyOrder ==
    LET v == View
    IN  \A b \in Buffers(v) : Bracketed(v, b) /\ BeforeTerminator(v, b)

\* C5, amended: whatever the order in which the rules were applied, every
\* buffer has one allocation and one deallocation around all its uses; the
\* deallocation is before the terminator of the block if the return of the
\* block had not been rewritten when the buffer was created.
C5_BufferLifetime ==
    LET v == View
    IN  \A b \in Buffers(v) :
            /\ Bracketed(v, b)
            /\ ~ReturnRewrittenBefore(v, b) => BeforeTerminator(v, b)

\* A committed conversion with two buffers or more, one of them printed and
\* one written by a loop nest, whose return was rewritten after they were
\* created.
C5_Witness ==
    LET v == View
    IN  /\ outcome = "success"
        /\ Cardinality(Buffers(v)) >= 2
        /\ \A b \in Buffers(v) :
              ~ReturnRewrittenBefore(v, b) /\ UsesOf(v, b) # {}
        /\ \E p \in 1..Len(v) : v[p].kind = "pony.print"
        /\ \E p \in 1..Len(v) : v[p].kind = "affine.for"
        /\ v[Len(v)].kind = "func.return"

\* The pony.print operations of the block.
Prints == {p \in 1..Len(block) : block[p].kind = "pony.print"}

\* pony.print is legal exactly when none of its operands is tensor-typed,
\* and one that was legalized is legal.
PrintLegality ==
    outcome \in {"converting", "success"} =>
        \A p \in Prints :
            /\ IsLegal(block, block[p])
                  <=> \A k \in 1..Len(block[p].operands) :
                         ValueType(block[p].operands[k]) # "tensor"
            /\ block[p].id \in done => IsLegal(block, block[p])

\* A step that legalizes a pony.print sets its operands to the buffers that
\* replaced them and changes nothing else.
PrintStep ==
    \A p \in Prints :
        (block[p].id \notin done /\ block[p].id \in done'
         /\ outcome' = "converting") =>
            /\ Len(block') = Len(block)
            /\ \A q \in 1..Len(block) : q # p => block'[q] = block[q]
            /\ block'[p] = [block[p] EXCEPT
                               !.operands = RemapAll(mapping, @)]
            /\ UNCHANGED <<func, mapping, gone, nextId>>

\* C11: pony.print is legal exactly when none of its operand types is a
\* tensor, and applying its rule changes only its operand references, to
\* the replacement buffers; its kind, its position and every other
\* operation stay as they were.
C11_PrintLegalAndFrame == []PrintLegality /\ [][PrintStep]_vars

\* A pony.print was legalized: its operand, a tensor in the input, is now
\* the buffer that replaced it.
C11_Witness ==
    /\ outcome = "converting"
    /\ \E p \in Prints :
          /\ block[p].id \in done
          /\ block[p].operands # OpOf(input.body, block[p].id).operands
          /\ ValueType(block[p].operands[1]) = "memref"
          /\ block[p] = [OpOf(input.body, block[p].id) EXCEPT
                            !.operands = RemapAll(mapping, @)]

\* The conversion is over: it succeeded or it signalled failure.
Halted == outcome \in {"success", "failure"}

\* The operations the rules created, which are not in toConvert.
Created == {p \in 1..Len(block) : ~HasOp(input.body, block[p].id)}

\* No operation a rule created is illegal, each operation is legalized at
\* most once, and a successful conversion leaves no illegal operation.
FixedPoint ==
    /\ \A p \in Created : IsLegal(block, block[p])
    /\ done \subseteq Range(toConvert)
    /\ steps <= Len(toConvert) + 1
    /\ outcome = "success" => ~IllegalRemains
    /\ outcome = "failure" => block = input.body /\ func = input.fn

\* A conversion step legalizes one more operation or ends the conversion,
\* and an outcome, once there, stays.
Progress ==
    /\ outcome # "converting" => outcome' = outcome
    /\ (outcome = "converting" /\ <<func, block, done>>' # <<func, block, done>>)
          => \/ outcome' # "converting"
             \/ done \subseteq done' /\ Cardinality(done') = Cardinality(done) + 1

\* While the conversion is not over the driver has a step to take: the
\* commit, or the legalization of the next operation, whose pattern
\* answers.
NotStuck ==
    outcome = "converting" =>
        \/ Pending = {}
        \/ /\ InOrder # {}
           /\ \A id \in InOrder \ {FuncId} :
                 \/ IsLegal(block, OpOf(block, id))
                 \/ ApplyPattern(block, mapping, gone, OpOf(block, id),
                                 nextId).status
                       \in {"success", "failure", "crash"}

\* Every tensor of the input has a ranked shape, as inputs of the pass do.
InputRanked == \A k \in 1..Len(input.body) : hasRank(input.body[k].shape)

\* C12: for every input the driver eventually halts, with the legal
\* rewritten function or with the failure signal and nothing else; no
\* operation a rule creates is illegal, so none is rewritten again.
C12_DriverHalts ==
    /\ InputRanked => <>[]Halted
    /\ []FixedPoint /\ []NotStuck /\ [][Progress]_vars

\* The driver halted in success after rules had created operations, every
\* one of them legal.
C12_Witness ==
    /\ outcome = "success"
    /\ Cardinality(Created) > 3
    /\ ~IllegalRemains
    /\ done = Range(toConvert)

\* The conversion of the input carried out in the order of toConvert, as
\* a function of the input: one legalization, then all of them in turn.
RefState(status, fn, blk, map, erased, next) ==
    [status |-> status, fn |-> fn, blk |-> blk, map |-> map,
     gone |-> erased, next |-> next]

Ongoing(status) == IF status = "success" THEN "converting" ELSE status

RefFunc(st, r) ==
    RefState(Ongoing(r.status), r.fn, st.blk, st.map, st.gone, st.next)

RefOp(st, r) ==
    RefState(Ongoing(r.status), st.fn, r.blk, r.map, r.gone, r.next)

RefStep(st, id) ==
    IF st.status # "converting" THEN st
    ELSE IF id = FuncId
    THEN IF IsLegal(st.blk, st.fn) THEN st
         ELSE RefFunc(st, FuncOpLowering(st.fn))
    ELSE IF IsLegal(st.blk, OpOf(st.blk, id)) THEN st
         ELSE RefOp(st, ApplyPattern(st.blk, st.map, st.gone,
                                     OpOf(st.blk, id), st.next))

RECURSIVE RunInOrder(_, _)
RunInOrder(st, k) ==
    IF k > Len(toConvert) THEN st
    ELSE RunInOrder(RefStep(st, toConvert[k]), k + 1)

Concluded(st) ==
    IF st.status = "converting"
    THEN [outcome |-> "success", fn |-> st.fn,
          blk |-> applyRewrites(st.blk, st.map, st.gone)]
    ELSE [outcome |-> st.status, fn |-> input.fn, blk |-> input.body]

Reference ==
    Concluded(RunInOrder(RefState("converting", input.fn, input.body, <<>>,
                                  {}, Len(input.body) + 1), 1))

\* What an operation is, its name and its operands apart.
Sig(o) ==
    <<o.kind, o.ty, o.shape, o.value, Len(o.operands),
      [k \in 1..Len(o.body) |-> o.body[k].kind]>>

\* How many operations of each sort a block holds.
Census(blk) ==
    [g \in {Sig(blk[p]) : p \in 1..Len(blk)} |->
        Cardinality({p \in 1..Len(blk) : Sig(blk[p]) = g})]

\* The legal and the illegal operations of a function, each by its sort.
LegalCensus(fn, blk) ==
    <<IsLegal(blk, fn),
      Census(SelectSeq(blk, LAMBDA o : IsLegal(blk, o))),
      Census(SelectSeq(blk, LAMBDA o : ~IsLegal(blk, o)))>>

\* The conversion ended as the conversion in the order of toConvert ends:
\* the same outcome, the same legal and the same illegal operations.
SameFixedPoint ==
    Halted \/ outcome = "crash" =>
        LET ref == Reference
        IN  /\ outcome = ref.outcome
            /\ Halted =>
                  /\ func = ref.fn
                  /\ LegalCensus(func, block) = LegalCensus(ref.fn, ref.blk)

\* Every operation the driver has legalized or tried to came after the
\* operations that define its operands.
OperandsFirst ==
    \A id \in (done \cup {current}) \ {FuncId, NoOp} :
        \A v \in Range(OpOf(input.body, id).operands) : v \in done

\* C13 as stated: whatever the order in which the rules are applied, the
\* conversion ends with the same outcome and the same legal and illegal
\* operations.
C13_AnyOrderSameFixedPoint == SameFixedPoint

\* C13, amended: in whatever order the rules are applied, provided each
\* operation is rewritten after the operations that define its operands,
\* the conversion ends with the same outcome and the same legal and
\* illegal operations; only the order of the operations may differ.
C13_OperandsFirstSameFixedPoint == OperandsFirst => SameFixedPoint

\* A conversion that succeeded in another order than that of toConvert:
\* the operations are those of the reference, in a different order.
C13_Witness ==
    /\ outcome = "success"
    /\ OperandsFirst
    /\ LegalCensus(func, block) = LegalCensus(Reference.fn, Reference.blk)
    /\ [p \in 1..Len(block) |-> block[p].kind]
          # [p \in 1..Len(Reference.blk) |-> Reference.blk[p].kind]

\* The literals whose element sequence is not as long as the product of
\* the dimensions of their shape.
MalformedLiterals ==
    {n \in InputOps({"pony.constant"}) : Len(n.value) # Prod(n.shape)}

\* C14 as stated: for a literal whose element sequence is not as long as
\* the product of its dimensions no store is ever emitted, and the pass
\* ends in failure.
C14_MalformedPayloadFails ==
    \A n \in MalformedLiterals :
        /\ StoresOf(n) = <<>>
        /\ outcome \in {"converting", "failure"}

\* A tensor of the input has no ranked shape.
ShapeNotResolved == ~InputRanked

\* C15 as stated: while a tensor without a ranked shape has not been
\* detected, which ends the run, no rule has been applied and no buffer
\* has been allocated.
C15_UnrankedDetectedFirst ==
    ShapeNotResolved =>
        /\ mapping = <<>> /\ gone = {}
        /\ "memref.alloc" \notin KindsOf(func, block)
        /\ func = input.fn

\* The loop nest lowered from input operation n is about to run the
\* iteration at induction values iv.
NestAt(n, iv) ==
    /\ Running
    /\ block[pc].kind = "affine.for"
    /\ block[pc].loc = n.id
    /\ iv = (IF ivs = <<>> THEN Zeros(Len(block[pc].shape)) ELSE ivs)

\* The stores outside every loop that write buffer buf.
InitializingStores(buf) ==
    {p \in 1..Len(block) :
        block[p].kind = "affine.store" /\ block[p].operands[2] = buf}

\* C17 as stated: when the nest lowered from a gemm comes to the first
\* read-accumulate-write of result[i,j], that element of the destination
\* buffer has already been written with zero by the store of a lowered
\* literal; the rule itself emits no store that initializes it.
C17_AccumulatorPreZeroed ==
    \A n \in InputOps({"pony.gemm"}) :
        \A i \in 0..MaxDim, j \in 0..MaxDim :
            NestAt(n, <<i, j, 0>>) =>
                /\ mem[BufferOf(n)][<<i, j>>] = 0
                /\ \E p \in InitializingStores(BufferOf(n)) :
                      /\ p < pc
                      /\ OpOf(input.body, block[p].loc).kind = "pony.constant"
                /\ \A p \in InitializingStores(BufferOf(n)) :
                      block[p].loc # n.id

\* The tensor-typed results of the input that a rule has replaced.
Superseded ==
    {n.id : n \in {m \in InputOps(PonyKinds) :
                      /\ m.ty = "tensor"
                      /\ m.id \in gone \/ ~HasOp(block, m.id)}}

\* The operations that remain and are not waiting for their rule: those
\* the rules created and those of the input already legalized.
Settled ==
    {p \in 1..Len(block) :
        block[p].id \notin gone /\ block[p].id \notin Pending}

\* The buffers a loop nest loads from.
Loaded(o) ==
    {o.body[k].buf : k \in {j \in 1..Len(o.body) :
                              o.body[j].kind = "affine.load"}}

\* Every use the operation at p had of a replaced result is a use of the
\* buffer that replaced it.
FormerUsesReplaced(p) ==
    LET o == block[p]
    IN  /\ HasOp(input.body, o.id)
              => o.operands = RemapAll(mapping, OpOf(input.body, o.id).operands)
        /\ (o.kind = "affine.for" /\ o.loc \in DOMAIN mapping)
              => Loaded(o) \ {mapping[o.loc]}
                    = {Remap(mapping, v) :
                          v \in Range(OpOf(input.body, o.loc).operands)}

ShapePrecondition(n) ==
    LET sh(k) == OpOf(input.body, n.operands[k]).shape
    IN  CASE n.kind \in {"pony.add", "pony.mul"} ->
                hasRank(n.shape) /\ sh(1) = n.shape /\ sh(2) = n.shape
          [] n.kind = "pony.transpose" ->
                hasRank(n.shape) /\ sh(1) = Reverse(n.shape)
          [] n.kind = "pony.gemm" ->
                /\ Len(sh(1)) = 2 /\ Len(sh(2)) = 2 /\ Len(n.shape) = 2
                /\ sh(1)[2] = sh(2)[2]
                /\ n.shape = <<sh(1)[1], sh(2)[1]>>
          [] n.kind = "pony.constant" ->
                hasRank(n.shape) /\ Len(n.value) = Prod(n.shape)
          [] OTHER -> FALSE

\* Every load and store of loop nest o, at every iteration, is at an
\* index tuple of the buffer it accesses.
NestInBounds(o) ==
    \A k \in 1..Len(o.body) :
        o.body[k].kind \in {"affine.load", "affine.store"} =>
            \A iv \in Coords(o.shape) :
                At(iv, o.body[k].idx) \in Coords(ShapeOf(block, o.body[k].buf))

\* The indices of store o are index constants created for the same
\* literal n, of values below its largest dimension, and together an index
\* tuple of the buffer stored to.
StoreInBounds(o, n) ==
    /\ \A d \in 3..Len(o.operands) :
          /\ HasOp(block, o.operands[d])
          /\ LET c == OpOf(block, o.operands[d])
             IN  /\ c.kind = "arith.constant" /\ c.ty = "index"
                 /\ c.loc = n.id
                 /\ c.value[1] \in 0..(MaxOf(Range(n.shape)) - 1)
                 /\ IndexOf(block, c.id) < IndexOf(block, o.id)
    /\ StoreCoord(o) \in Coords(ShapeOf(block, o.operands[2]))

\* C19: for every lowered add, mul, transpose, gemm and literal that meets
\* the shape precondition of its rule, every index tuple of every load and
\* store generated for it lies within the buffer accessed, every index of
\* a literal's store is one of the index constants 0..max(dim)-1 created
\* for it, and running the function makes no access out of bounds.
C19_AccessesInBounds ==
    outcome = "success" =>
        /\ \A n \in {m \in InputOps(PonyKinds) : ShapePrecondition(m)} :
              \A p \in 1..Len(block) :
                 block[p].loc = n.id =>
                    /\ block[p].kind = "affine.for" => NestInBounds(block[p])
                    /\ block[p].kind = "affine.store"
                          => StoreInBounds(block[p], n)
        /\ (\A n \in InputOps(PonyKinds \ {"pony.print", "pony.return"}) :
               ShapePrecondition(n)) => ~fault

\* A gemm of a 2x2 by a 1x2 matrix was lowered and run to its end: the
\* literals were stored through their index constants and the nest of
\* bounds (2, 1, 2) ran without an access out of bounds.
C19_Witness ==
    /\ outcome = "success"
    /\ pc > Len(block)
    /\ ~fault
    /\ \E p \in 1..Len(block) :
          /\ block[p].kind = "affine.for"
          /\ block[p].shape = <<2, 1, 2>>
          /\ NestInBounds(block[p])
    /\ \E p \in 1..Len(block) :
          /\ block[p].kind = "affine.store"
          /\ StoreCoord(block[p]) = <<1, 1>>
    /\ \A n \in InputOps({"pony.constant", "pony.gemm"}) :
          ShapePrecondition(n)

\* ------------------------------------------------------------ the pipeline
\* The outputs for which main goes through loadAndProcessMLIR: all but the
\* token dump and the AST dump, which return before it.
CompilingActions ==
    {None, DumpMLIR, DumpMLIRAffine, DumpMLIRLLVM, DumpLLVMIR, RunJIT}

\* A pipeline with inlining and shape inference only when optimizing.
PipelineOptOnly(action, opt) ==
    (IF opt
     THEN <<"inline", "shape-inference", "canonicalize", "cse">>
     ELSE <<>>)
    \o (IF action >= DumpMLIRAffine
        THEN <<"lower-to-affine", "canonicalize", "cse">>
        ELSE <<>>)
    \o (IF action >= DumpMLIRLLVM THEN <<"lower-to-llvm">> ELSE <<>>)

\* The passes loadAndProcessMLIR adds to the pass manager, in order.
Pipeline(action, opt) ==
    LET isLoweringToAffine == action >= DumpMLIRAffine
        isLoweringToLLVM == action >= DumpMLIRLLVM
    IN  (IF opt \/ isLoweringToAffine
         THEN <<"inline", "shape-inference", "canonicalize", "cse">>
         ELSE <<>>)
        \o (IF isLoweringToAffine
            THEN <<"lower-to-affine", "canonicalize", "cse">>
                 \o (IF opt THEN <<"loop-fusion", "scalar-replacement">>
                            ELSE <<>>)
            ELSE <<>>)
        \o (IF isLoweringToLLVM THEN <<"lower-to-llvm">> ELSE <<>>)

\* ponyc is started: the module is loaded and the pass manager is empty.
PipelineInit ==
    /\ InitPass
    /\ pm \in [emitAction : CompilingActions, enableOpt : BOOLEAN,
               passes : {<<>>}, ran : {<<>>}, status : {"building"}]
    /\ NoTokenDump

\* loadAndProcessMLIR fills the pass manager.
AddPasses ==
    /\ pm.status = "building"
    /\ pm' = [pm EXCEPT !.passes = Pipeline(pm.emitAction, pm.enableOpt),
                        !.status = "running"]
    /\ UNCHANGED <<input, func, block, mapping, gone, done, outcome, nextId,
                   steps, current>>
    /\ UNCHANGED execVars
    /\ UNCHANGED lexVars

\* pm.run runs the next pass. The lowering is the conversion of this
\* module; any other pass succeeds or fails, and the run stops at the
\* first pass that fails.
RunLowering(pass, ref) ==
    /\ outcome' = ref.outcome
    /\ func' = ref.fn
    /\ block' = ref.blk
    /\ pm' = [pm EXCEPT !.ran = Append(@, pass),
                        !.status = CASE ref.outcome = "success" -> "running"
                                     [] ref.outcome = "failure" -> "failed"
                                     [] OTHER -> "aborted"]

RunOther(pass) ==
    /\ \E ok \in BOOLEAN :
          pm' = [pm EXCEPT !.ran = Append(@, pass),
                          !.status = IF ok THEN "running" ELSE "failed"]
    /\ UNCHANGED <<func, block, outcome>>

NextPass == pm.passes[Len(pm.ran) + 1]

RunPass ==
    /\ pm.status = "running"
    /\ Len(pm.ran) < Len(pm.passes)
    /\ IF NextPass = "lower-to-affine"
       THEN RunLowering(NextPass, Reference)
       ELSE RunOther(NextPass)
    /\ UNCHANGED <<input, mapping, gone, done, nextId, steps, current>>
    /\ UNCHANGED execVars
    /\ UNCHANGED lexVars

\* Every pass succeeded: loadAndProcessMLIR returns 0.
PipelineDone ==
    /\ pm.status = "running"
    /\ Len(pm.ran) = Len(pm.passes)
    /\ pm' = [pm EXCEPT !.status = "ok"]
    /\ UNCHANGED <<input, func, block, mapping, gone, done, outcome, nextId,
                   steps, current>>
    /\ UNCHANGED execVars
    /\ UNCHANGED lexVars

\* What loadAndProcessMLIR returns: 4 if the run of the passes failed.
ExitCode == IF pm.status = "failed" THEN 4 ELSE 0

PipelineNext ==
    \/ AddPasses
    \/ RunPass
    \/ PipelineDone

PipelineSpec == PipelineInit /\ [][PipelineNext]_vars

\* The positions of a pass in a sequence of passes.
Where(passes, name) == {k \in 1..Len(passes) : passes[k] = name}

\* In a sequence of passes, the lowering comes after an inlining followed
\* by a shape inference, and before every lowering to LLVM.
LoweringInPlace(passes) ==
    \A l \in Where(passes, "lower-to-affine") :
        /\ \E i \in Where(passes, "inline") :
              \E s \in Where(passes, "shape-inference") : i < s /\ s < l
        /\ \A v \in Where(passes, "lower-to-llvm") : l < v

\* C16: whenever the lowering is scheduled, which it is for mlir-affine
\* and every later output, inlining and then shape inference are scheduled
\* before it and the lowering to LLVM, if scheduled, after it; and the
\* lowering never runs on a module that shape inference has not run on
\* with success.
C16_LoweringAfterShapeInference ==
    /\ LoweringInPlace(pm.passes)
    /\ LoweringInPlace(pm.ran)
    /\ (pm.status # "building" /\ pm.emitAction >= DumpMLIRAffine)
          => Where(pm.passes, "lower-to-affine") # {}
    /\ pm.ran = SubSeq(pm.passes, 1, Len(pm.ran))
    /\ (outcome # "converting") <=> Where(pm.ran, "lower-to-affine") # {}

\* The whole pipeline ran for the JIT: the lowering succeeded after
\* inlining and shape inference, and the lowering to LLVM came last.
C16_Witness ==
    /\ pm.status = "ok"
    /\ pm.emitAction = RunJIT
    /\ outcome = "success"
    /\ pm.ran = <<"inline", "shape-inference", "canonicalize", "cse",
                  "lower-to-affine", "canonicalize", "cse", "lower-to-llvm">>

\* --------------------------------------------------------------- the lexer
\* The longest file of the token dump, and the bytes it is made of: NUL,
\* newline, space, '#', '.', '1', ';', 'a' and the bytes 0xC8 and 0xFF.
MaxFileLen == 3

Bytes == {0, 10, 32, 35, 46, 49, 59, 97, 200, 255}

Files == UNION {[1..n -> Bytes] : n \in 0..MaxFileLen}

\* What getNextChar returns at the end of the input.
EOF == 0 - 1

\* enum Token: the tokens that are not the code of their character.
tok_eof == 0 - 1
tok_return == 0 - 2
tok_var == 0 - 3
tok_def == 0 - 4
tok_identifier == 0 - 5
tok_number == 0 - 6
error == 0 - 7

\* The character classes of the "C" locale.
isspace(c) == c \in {9, 10, 11, 12, 13, 32}

isdigit(c) == c \in 48..57

isalpha(c) == c \in (65..90) \cup (97..122)

isalnum(c) == isalpha(c) \/ isdigit(c)

\* The Lexer as constructed: nothing read, lastChar a space, the line
\* buffer "\n", curTok tok_eof. charIsSigned is whether the build's plain
\* char is signed; outside is whether a value that is neither EOF nor an
\* unsigned char was handed to a character-class function.
LexerBuffer(signed) ==
    [current |-> 1, curLineBuffer |-> <<10>>, lastChar |-> 32,
     curTok |-> tok_eof, identifierStr |-> <<>>, lexHadError |-> FALSE,
     recordedTokens |-> <<>>, charIsSigned |-> signed, outside |-> FALSE]

\* *current: the byte at a position, the terminating NUL at the end.
Deref(i) == IF i <= Len(buffer) THEN buffer[i] ELSE 0

\* The position at which the scan of a line stops: a NUL or a newline.
RECURSIVE LineEnd(_)
LineEnd(i) ==
    IF i <= Len(buffer) + 1 /\ Deref(i) # 0 /\ Deref(i) # 10
    THEN LineEnd(i + 1)
    ELSE i

\* The next line, its newline included, and the position after it; the
\* empty line at the end of the buffer and at a NUL.
AfterNewline(stop) ==
    IF stop <= Len(buffer) + 1 /\ Deref(stop) # 0 THEN stop + 1 ELSE stop

Line(begin, cur) ==
    [current |-> cur, line |-> SubSeq(buffer, begin, cur - 1)]

readNextLine(L) == Line(L.current, AfterNewline(LineEnd(L.current)))

\* A char returned as an int.
AsInt(byte, signed) == IF signed /\ byte >= 128 THEN byte - 256 ELSE byte

\* The next character, from the line buffer, refilled when empty; EOF when
\* there is no next line.
Consume(L) ==
    [lex |-> [L EXCEPT !.curLineBuffer = Tail(@)],
     c |-> AsInt(Head(L.curLineBuffer), L.charIsSigned)]

Refill(L, nextLine) ==
    IF nextLine.line = <<>>
    THEN [lex |-> L, c |-> EOF]
    ELSE Consume([L EXCEPT !.current = nextLine.current,
                           !.curLineBuffer = nextLine.line])

getNextChar(L) ==
    IF L.curLineBuffer = <<>> THEN Refill(L, readNextLine(L)) ELSE Consume(L)

\* lastChar = Token(getNextChar()); every character read is next handed to
\* a character-class function.
Looked(r) == [r.lex EXCEPT !.lastChar = r.c, !.outside = @ \/ r.c < EOF]

Advance(L) == Looked(getNextChar(L))

\* What getTok returns: the lexer as it leaves it, and the token.
Lexed(L, tok) == [lex |-> L, tok |-> tok]

Recorded(L, tok) ==
    Lexed([L EXCEPT !.recordedTokens = Append(@, tok)], tok)

\* while (isspace(lastChar)) lastChar = Token(getNextChar());
RECURSIVE SkipSpace(_)
SkipSpace(L) == IF isspace(L.lastChar) THEN SkipSpace(Advance(L)) ELSE L

\* The rest of an identifier with two digits in a row is read and dropped.
RECURSIVE SkipIdentifier(_)
SkipIdentifier(L) ==
    IF isalpha(L.lastChar) \/ isdigit(L.lastChar) \/ L.lastChar = 95
    THEN SkipIdentifier(Advance(L))
    ELSE L

Keyword(idStr) ==
    CASE idStr = <<114, 101, 116, 117, 114, 110>> -> tok_return
      [] idStr = <<118, 97, 114>> -> tok_var
      [] idStr = <<100, 101, 102>> -> tok_def
      [] OTHER -> tok_identifier

\* An identifier or a keyword; two digits in a row are a lexical error.
RECURSIVE LexIdentifier(_, _, _)
LexIdentifier(L, idStr, prevDigit) ==
    IF isalnum(L.lastChar) \/ L.lastChar = 95
    THEN IF isdigit(L.lastChar) /\ prevDigit
         THEN Lexed([SkipIdentifier(L) EXCEPT !.lexHadError = TRUE], error)
         ELSE LexIdentifier(Advance(L), Append(idStr, L.lastChar),
                            isdigit(L.lastChar))
    ELSE Recorded([L EXCEPT !.identifierStr = idStr], Keyword(idStr))

\* A number lexer that does not look at the last character of the run.
RECURSIVE LexNumberAnyEnd(_, _, _, _, _)
LexNumberAnyEnd(L, numStr, seenDot, prevDot, err) ==
    IF isdigit(L.lastChar) \/ L.lastChar = 46
    THEN LET dot == L.lastChar = 46
         IN  LexNumberAnyEnd(Advance(L), Append(numStr, L.lastChar),
                             seenDot \/ dot, dot,
                             err \/ (dot /\ (seenDot \/ prevDot)))
    ELSE IF err
         THEN Lexed([L EXCEPT !.lexHadError = TRUE], error)
         ELSE Recorded(L, tok_number)

\* A run of digits and dots: a number if it starts and ends with a digit
\* and holds at most one dot, a lexical error otherwise.
RECURSIVE LexNumber(_, _, _, _, _)
LexNumber(L, numStr, seenDot, prevDot, err) ==
    IF isdigit(L.lastChar) \/ L.lastChar = 46
    THEN LET dot == L.lastChar = 46
         IN  LexNumber(Advance(L), Append(numStr, L.lastChar),
                       seenDot \/ dot, dot,
                       err \/ (dot /\ (seenDot \/ prevDot)))
    ELSE IF err \/ ~isdigit(numStr[Len(numStr)])
         THEN Lexed([L EXCEPT !.lexHadError = TRUE], error)
         ELSE Recorded(L, tok_number)

\* do lastChar = Token(getNextChar());
\* while (lastChar != EOF && lastChar != '\n' && lastChar != '\r');
RECURSIVE SkipComment(_)
CommentFrom(n) ==
    IF n.lastChar # EOF /\ n.lastChar # 10 /\ n.lastChar # 13
    THEN SkipComment(n)
    ELSE n

SkipComment(L) == CommentFrom(Advance(L))

\* A character token that is returned and the lookahead left in place.
LexCharNoAdvance(L) == Recorded(L, L.lastChar)

\* Any other character is a token of its own code, whether the switch
\* names it or not: it is recorded and the next character is read.
LexChar(L) == Recorded(Advance(L), L.lastChar)

\* The end of the input, which is not consumed, or a character token.
EofOrChar(L) ==
    IF L.lastChar = EOF THEN Recorded(L, tok_eof) ELSE LexChar(L)

\* getTok: the whitespace is skipped, then an identifier, a number, a
\* comment (after which getTok starts again unless the input ended), the
\* end of the input or a character token.
RECURSIVE getTok(_)
AfterComment(L) == IF L.lastChar # EOF THEN getTok(L) ELSE EofOrChar(L)

AfterSpace(L) ==
    IF isalpha(L.lastChar) \/ L.lastChar = 95
    THEN LexIdentifier(L, <<>>, FALSE)
    ELSE IF isdigit(L.lastChar) \/ L.lastChar = 46
    THEN LexNumber(L, <<>>, FALSE, FALSE, L.lastChar = 46)
    ELSE IF L.lastChar = 35 THEN AfterComment(SkipComment(L))
    ELSE EofOrChar(L)

getTok(L) == AfterSpace(SkipSpace(L))

\* curTok = getTok()
Current(r) == [r.lex EXCEPT !.curTok = r.tok]

getNextToken(L) == Current(getTok(L))

\* No module is built when the tokens are dumped.
NoModule ==
    [fn |-> [kind |-> "pony.func", name |-> "main", nargs |-> 0, nres |-> 0],
     body |-> <<>>]

\* dumpToken has read the file and made the Lexer.
LexInit ==
    /\ InitOn(NoModule)
    /\ pm = [emitAction |-> DumpToken, enableOpt |-> FALSE, passes |-> <<>>,
             ran |-> <<>>, status |-> "building"]
    /\ buffer \in Files
    /\ \E signed \in BOOLEAN : lexer = LexerBuffer(signed)
    /\ tokenDump = "prime"

\* The call that primes the lexer, or one turn of the loop. A value outside
\* the domain of the character-class functions is in no class, or the call
\* aborts.
Called(n) ==
    /\ lexer' = n
    /\ tokenDump' \in {"loop"} \cup (IF n.outside THEN {"aborted"} ELSE {})

GetNextToken ==
    /\ \/ tokenDump = "prime"
       \/ tokenDump = "loop" /\ lexer.curTok # tok_eof
    /\ Called(getNextToken(lexer))
    /\ steps' = steps + 1
    /\ UNCHANGED <<input, func, block, mapping, gone, done, outcome, nextId,
                   current, pm, buffer>>
    /\ UNCHANGED execVars

\* The loop is left at tok_eof and dumpToken returns.
DumpTokenReturns ==
    /\ tokenDump = "loop"
    /\ lexer.curTok = tok_eof
    /\ tokenDump' = "returned"
    /\ steps' = steps + 1
    /\ UNCHANGED <<input, func, block, mapping, gone, done, outcome, nextId,
                   current, pm, buffer, lexer>>
    /\ UNCHANGED execVars

\* What dumpToken returns: 1 if a lexical error was detected.
dumpToken == IF lexer.lexHadError THEN 1 ELSE 0

LexNext ==
    \/ GetNextToken
    \/ DumpTokenReturns

LexSpec == LexInit /\ [][LexNext]_vars

\* dumpToken takes its next step: it is sequential code, which goes on
\* until it returns.
DumpStep == tokenDump \in {"prime", "loop"} /\ steps' = steps + 1

LexFairSpec == LexSpec /\ WF_steps(DumpStep)

\* The characters of the file not consumed yet by lexer L: the lookahead,
\* the rest of the line buffer and what was not read. Before the first
\* call nothing of the file was read.
InputLeft(L, at) ==
    IF at = "prime" THEN Len(buffer)
    ELSE (IF L.lastChar # EOF THEN 1 ELSE 0) + Len(L.curLineBuffer)
         + (Len(buffer) + 1 - L.current)

\* The input is exhausted: the lookahead is EOF and no line is left.
Exhausted(L) ==
    /\ L.lastChar = EOF
    /\ L.curLineBuffer = <<>>
    /\ readNextLine(L).line = <<>>

\* A call of getTok returns tok_eof or consumes at least one character, the
\* call that returns the error token too.
EveryCallConsumes ==
    lexer' # lexer =>
        \/ lexer'.curTok = tok_eof
        \/ InputLeft(lexer', tokenDump') < InputLeft(lexer, tokenDump)

\* Once the input is exhausted, a call returns tok_eof, and so does every
\* call after it.
EofForEver ==
    (tokenDump # "idle" /\ Exhausted(lexer)) =>
        LET once == getNextToken(lexer)
            twice == getNextToken(once)
        IN  /\ once.curTok = tok_eof /\ Exhausted(once)
            /\ twice.curTok = tok_eof /\ Exhausted(twice)

\* The token dump is over.
DumpOver == tokenDump \in {"returned", "aborted"}

\* C20: for every file the loop of the token dump ends; every call of
\* getTok returns tok_eof or consumes at least one character of the file,
\* also when it returns the error token; and once the input is exhausted
\* every further call returns tok_eof.
C20_TokenDumpTerminates ==
    /\ <>[]DumpOver
    /\ [][EveryCallConsumes]_vars
    /\ []EofForEver

\* The dump of a file of three characters returned after a call that
\* returned the error token and the call that returned tok_eof: the file
\* was consumed to its end.
C20_Witness ==
    /\ tokenDump = "returned"
    /\ Len(buffer) = 3
    /\ lexer.lexHadError
    /\ lexer.recordedTokens # <<tok_eof>>
    /\ lexer.curTok = tok_eof
    /\ Exhausted(lexer)
    /\ lexer.current = Len(buffer) + 1
    /\ dumpToken = 1

\* Where getTok starts its token: the lexer after the whitespace and the
\* comments before it.
RECURSIVE TokenStart(_)
TokenStartAfter(C) == IF C.lastChar # EOF THEN TokenStart(C) ELSE C

TokenStartAt(L) ==
    IF L.lastChar = 35 THEN TokenStartAfter(SkipComment(L)) ELSE L

TokenStart(L) == TokenStartAt(SkipSpace(L))

\* The position in the file of the lookahead of a lexer that has read from
\* it.
LookaheadAt(L) == L.current - Len(L.curLineBuffer) - 1

\* The maximal run of digits and dots of the file from position i on.
RECURSIVE NumberRun(_)
NumberRun(i) ==
    IF i <= Len(buffer) /\ (isdigit(buffer[i]) \/ buffer[i] = 46)
    THEN <<buffer[i]>> \o NumberRun(i + 1)
    ELSE <<>>

\* A run is a number: it starts and ends with a digit and holds at most
\* one dot.
WellFormedNumber(run) ==
    /\ isdigit(run[1])
    /\ isdigit(run[Len(run)])
    /\ Cardinality({k \in 1..Len(run) : run[k] = 46}) <= 1

\* The lookahead of lexer L is the character at position i of the file,
\* or EOF if the file or its text ends there.
LookaheadIs(L, i) ==
    IF Deref(i) = 0
    THEN L.lastChar = EOF /\ L.curLineBuffer = <<>> /\ L.current = i
    ELSE L.lastChar = AsInt(buffer[i], L.charIsSigned)
         /\ LookaheadAt(L) = i

\* What the call that started at st on run made of lexer: the run is
\* consumed and no more; a number is returned and recorded, or the error
\* token is returned, nothing is recorded and the error flag is set.
NumberLexed(st, run, after) ==
    /\ run # <<>>
    /\ LookaheadIs(after, LookaheadAt(st) + Len(run))
    /\ after.curTok = tok_number <=> WellFormedNumber(run)
    /\ after.curTok \in {tok_number, error}
    /\ WellFormedNumber(run)
          => /\ after.recordedTokens = Append(st.recordedTokens, tok_number)
             /\ after.lexHadError = st.lexHadError
    /\ ~WellFormedNumber(run)
          => /\ after.recordedTokens = st.recordedTokens
             /\ after.lexHadError

\* A call of getTok that starts on a digit or a dot lexes the run there.
NumberStep ==
    (lexer' # lexer /\ tokenDump \in {"prime", "loop"}) =>
        LET st == TokenStart(lexer)
        IN  (isdigit(st.lastChar) \/ st.lastChar = 46) =>
                NumberLexed(st, NumberRun(LookaheadAt(st)), lexer')

\* The error flag, once set, stays set, in the lexer and in steps of
\* dumpToken alike.
FlagKept == lexer.lexHadError => lexer'.lexHadError

\* dumpToken returns 1 when the flag is set, and the flag is set whenever
\* the error token is the current token.
FlagReturned ==
    tokenDump # "idle" =>
        /\ lexer.curTok = error => lexer.lexHadError
        /\ (tokenDump = "returned" /\ lexer.lexHadError) => dumpToken = 1
        /\ (tokenDump = "returned" /\ ~lexer.lexHadError) => dumpToken = 0

\* The flag is set in a dump that goes on; dumpToken has returned 1, or
\* the dump was aborted on a character outside the character classes.
FlagSet == tokenDump \in {"prime", "loop"} /\ lexer.lexHadError

ReturnedOne ==
    \/ tokenDump = "returned" /\ dumpToken = 1
    \/ tokenDump = "aborted"

=============================================================================
